---- MODULE Spec2Model ----
(***************************************************************************)
(* Model of the howLongToBeat scraper (src/src/lib.rs).                    *)
(*                                                                         *)
(* Strings are sequences of one-character strings, so that trim, split,    *)
(* contains, replace and the number parsers are computed as the code       *)
(* computes them.  An Option is a sequence of length 0 (None) or 1 (Some). *)
(* An f32 is an integer count of quarters (1/Scale) rounded to 24          *)
(* significant bits; the texts of the model only carry the fractions the   *)
(* code itself writes (.5, .25, .75), so every value is a whole number of  *)
(* quarters before rounding.                                               *)
(***************************************************************************)
EXTENDS Integers, Sequences, FiniteSets, TLC

VARIABLES
    text,          \* convert_hours_minutes_to_sec_opt: the cell text
    parsed,        \* its Option<f32> result
    parsedOrZero,  \* result of convert_hours_minutes_to_sec
    called,        \* which of the two converters have run
    pc,            \* position of the lookup
    sandbox,       \* the sandbox argument
    launches,      \* LaunchOptions.sandbox of every browser launched
    phases,        \* the phase calls made by the lookup, in order
    elements,      \* search page: href attribute of each selected element
    searchResult,  \* Result<u32, _> of the title resolver
    hltb_id,       \* argument of the detail extractor
    titleEl,       \* detail page: inner_html of the title element, if any
    tableEl,       \* detail page: rows of the statistics table, if any
    title,
    rows,
    row_index,     \* index of the row the loop is at
    main_story,
    main_extra,
    completionist,
    all_styles,
    co_op,
    vs,
    detailResult,  \* Result<Game, _> of the detail extractor
    result,        \* Result<Game, _> of the lookup
    panic_site     \* source line of the unwrap that aborted, 0 if none

parseVars == <<text, parsed, parsedOrZero, called>>

searchVars == <<elements, searchResult>>

slotVars == <<main_story, main_extra, completionist, all_styles, co_op, vs>>

detailVars == <<hltb_id, titleEl, tableEl, title, rows, row_index, slotVars, detailResult>>

lookupVars == <<pc, sandbox, launches, phases, result, panic_site>>

vars == <<parseVars, searchVars, detailVars, lookupVars>>

(***************************************************************************)
(* Option<T>                                                               *)
(***************************************************************************)
None == <<>>

Some(x) == <<x>>

IsSome(o) == o # <<>>

(***************************************************************************)
(* str helpers of the standard library used by the code                    *)
(***************************************************************************)
Whitespace == {" ", "\n", "\t"}

Digits == <<"0", "1", "2", "3", "4", "5", "6", "7", "8", "9">>

IsDigit(c) == \E i \in 1..10 : Digits[i] = c

DigitVal(c) == (CHOOSE i \in 1..10 : Digits[i] = c) - 1

RECURSIVE trim_start(_)
trim_start(s) ==
    IF s # <<>> /\ Head(s) \in Whitespace THEN trim_start(Tail(s)) ELSE s

RECURSIVE trim_end(_)
trim_end(s) ==
    IF s # <<>> /\ s[Len(s)] \in Whitespace
    THEN trim_end(SubSeq(s, 1, Len(s) - 1))
    ELSE s

trim(s) == trim_end(trim_start(s))

RECURSIVE SplitFrom(_, _, _)
SplitFrom(s, cur, out) ==
    IF s = <<>>
    THEN IF cur = <<>> THEN out ELSE Append(out, cur)
    ELSE IF Head(s) \in Whitespace
         THEN SplitFrom(Tail(s), <<>>, IF cur = <<>> THEN out ELSE Append(out, cur))
         ELSE SplitFrom(Tail(s), Append(cur, Head(s)), out)

split_whitespace(s) == SplitFrom(s, <<>>, <<>>)

contains(s, pat) ==
    \E i \in 1..(Len(s) - Len(pat) + 1) : SubSeq(s, i, i + Len(pat) - 1) = pat

RECURSIVE replace(_, _, _)
replace(s, pat, to) ==
    IF Len(s) < Len(pat)
    THEN s
    ELSE IF SubSeq(s, 1, Len(pat)) = pat
         THEN to \o replace(SubSeq(s, Len(pat) + 1, Len(s)), pat, to)
         ELSE <<Head(s)>> \o replace(Tail(s), pat, to)

RECURSIVE SplitOn(_, _, _, _)
SplitOn(s, sep, cur, out) ==
    IF s = <<>>
    THEN Append(out, cur)
    ELSE IF Head(s) = sep
         THEN SplitOn(Tail(s), sep, <<>>, Append(out, cur))
         ELSE SplitOn(Tail(s), sep, Append(cur, Head(s)), out)

split(s, sep) == SplitOn(s, sep, <<>>, <<>>)

(***************************************************************************)
(* f32 arithmetic on counts of quarters                                    *)
(***************************************************************************)
Scale == 4

MantissaBits == 24

RECURSIVE Pow2(_)
Pow2(n) == IF n = 0 THEN 1 ELSE 2 * Pow2(n - 1)

RECURSIVE ExcessBits(_)
ExcessBits(n) == IF n < Pow2(MantissaBits) THEN 0 ELSE 1 + ExcessBits(n \div 2)

RoundMag(n) ==
    LET e    == ExcessBits(n)
        unit == Pow2(e)
        q    == n \div unit
        r    == n % unit
    IN  IF e = 0
        THEN n
        ELSE IF 2 * r > unit \/ (2 * r = unit /\ q % 2 = 1)
             THEN (q + 1) * unit
             ELSE q * unit

RoundF32(n) == IF n < 0 THEN 0 - RoundMag(0 - n) ELSE RoundMag(n)

MulF32(a, k) == RoundF32(a * k)

AddF32(a, b) == RoundF32(a + b)

(***************************************************************************)
(* str::parse::<f32>: [+-] digits [. digits], at least one digit.  The     *)
(* texts of the model carry no exponent and no "inf" or "nan" spelling.    *)
(***************************************************************************)
RECURSIVE DigitsValue(_, _)
DigitsValue(s, acc) ==
    IF s = <<>> THEN acc ELSE DigitsValue(Tail(s), 10 * acc + DigitVal(Head(s)))

AllDigits(s) == \A i \in 1..Len(s) : IsDigit(s[i])

RECURSIVE StripZeros(_)
StripZeros(s) ==
    IF s # <<>> /\ s[Len(s)] = "0" THEN StripZeros(SubSeq(s, 1, Len(s) - 1)) ELSE s

FracQuarters(frac) ==
    LET f == StripZeros(frac)
    IN  CASE f = <<>>         -> 0
          [] f = <<"2", "5">> -> 1
          [] f = <<"5">>      -> 2
          [] f = <<"7", "5">> -> 3

parse_f32(s) ==
    LET neg   == s # <<>> /\ Head(s) = "-"
        body  == IF s # <<>> /\ Head(s) \in {"-", "+"} THEN Tail(s) ELSE s
        parts == split(body, ".")
        int   == parts[1]
        frac  == IF Len(parts) = 2 THEN parts[2] ELSE <<>>
    IN  IF /\ Len(parts) <= 2
           /\ AllDigits(int)
           /\ AllDigits(frac)
           /\ Len(int) + Len(frac) >= 1
        THEN LET mag == RoundF32(Scale * DigitsValue(int, 0) + FracQuarters(frac))
             IN  Some(IF neg THEN 0 - mag ELSE mag)
        ELSE None

(***************************************************************************)
(* convert_hours_minutes_to_sec_opt (lib.rs 269-310)                       *)
(***************************************************************************)
SecondsPerHour == 3600

SecondsPerMinute == 60

Hours == <<"H", "o", "u", "r", "s">>

Hour == <<"H", "o", "u", "r">>

RECURSIVE Accumulate(_, _)
Accumulate(parts, total) ==
    IF parts = <<>>
    THEN total
    ELSE LET part == Head(parts)
             next ==
                 IF contains(part, <<"h">>)
                 THEN LET hours == parse_f32(replace(part, <<"h">>, <<>>))
                      IN  IF IsSome(hours)
                          THEN AddF32(total, MulF32(hours[1], SecondsPerHour))
                          ELSE total
                 ELSE IF contains(part, <<"m">>)
                      THEN LET minutes == parse_f32(replace(part, <<"m">>, <<>>))
                           IN  IF IsSome(minutes)
                               THEN AddF32(total, MulF32(minutes[1], SecondsPerMinute))
                               ELSE total
                      ELSE total
         IN  Accumulate(Tail(parts), next)

HoursBranch(t) ==
    LET parts == split_whitespace(t)
    IN  IF parts # <<>>
        THEN LET time_str == replace(replace(replace(parts[1],
                                 <<"½">>, <<".", "5">>),
                                 <<"¼">>, <<".", "2", "5">>),
                                 <<"¾">>, <<".", "7", "5">>)
                 hours == parse_f32(time_str)
             IN  IF IsSome(hours) THEN Some(MulF32(hours[1], SecondsPerHour)) ELSE None
        ELSE None

convert_zero_total_is_some(txt) ==
    LET t == trim(txt)
    IN  IF t = <<>> \/ t = <<"-", "-">> \/ t = <<"-">>
        THEN None
        ELSE IF contains(t, Hours) \/ contains(t, Hour)
             THEN HoursBranch(t)
             ELSE LET total == Accumulate(split_whitespace(t), 0)
                  IN  IF total >= 0 THEN Some(total) ELSE None

convert_hours_minutes_to_sec_opt(txt) ==
    LET t == trim(txt)
    IN  IF t = <<>> \/ t = <<"-", "-">> \/ t = <<"-">>
        THEN None
        ELSE IF contains(t, Hours) \/ contains(t, Hour)
             THEN HoursBranch(t)
             ELSE LET total == Accumulate(split_whitespace(t), 0)
                  IN  IF total > 0 THEN Some(total) ELSE None

convert_hours_minutes_to_sec(txt) ==
    LET r == convert_hours_minutes_to_sec_opt(txt)
    IN  IF IsSome(r) THEN r[1] ELSE 0

(***************************************************************************)
(* Integer formatting: u32::to_string, and the "{h}h {m}m" texts the page  *)
(* and the tests write                                                     *)
(***************************************************************************)
RECURSIVE to_string(_)
to_string(n) ==
    IF n < 10 THEN <<Digits[n + 1]>> ELSE Append(to_string(n \div 10), Digits[(n % 10) + 1])

FmtH(h) == to_string(h) \o <<"h">>

FmtM(m) == to_string(m) \o <<"m">>

FmtHM(h, m) == FmtH(h) \o <<" ">> \o FmtM(m)

(***************************************************************************)
(* Cell texts handed to the duration parser                                *)
(***************************************************************************)
MaxHours == 3

MaxMinutes == 3

MaxTokens == 2

HourValues == (0..MaxHours) \cup {4, 26, 4660, 18642}

MinuteValues == (0..MaxMinutes) \cup {10, 21, 59, 61}

CompactTexts ==
    {FmtHM(h, m) : h \in HourValues, m \in MinuteValues}
        \cup {FmtH(h) : h \in HourValues}
        \cup {FmtM(m) : m \in MinuteValues}

Tokens ==
    { <<"5", "h">>, <<"5", "m">>, <<"h", "5">>, <<"m", "5">>, <<"3", "h", "h">>,
      <<"2", "m", "m">>, <<"1", "h", "m">>, <<"5">>, <<"h">>, <<"-", "5", "h">>,
      <<"1", ".", "5", "h">>, <<"½", "h">>, <<"x">> }

RECURSIVE JoinWith(_, _)
JoinWith(toks, sep) ==
    IF Len(toks) = 0
    THEN <<>>
    ELSE IF Len(toks) = 1
         THEN toks[1]
         ELSE toks[1] \o sep \o JoinWith(Tail(toks), sep)

TokenTexts ==
    UNION { {JoinWith(toks, <<" ">>) : toks \in [1..n -> Tokens]} : n \in 1..MaxTokens }

HoursTexts ==
    { <<"8", "3", " ">> \o Hours,
      <<"5", "9", "½", " ">> \o Hours,
      <<"3", "8", "½", " ">> \o Hours,
      <<"¼", " ">> \o Hours,
      <<"2", "¾", " ">> \o Hours,
      <<"1", " ">> \o Hour,
      <<"0", " ">> \o Hours,
      <<"-", "5", " ">> \o Hours,
      <<"x", " ">> \o Hours,
      Hours,
      <<"4", "h", " ">> \o Hour }

SentinelTexts ==
    { <<>>, <<"-">>, <<"-", "-">>, <<" ">>, <<"-", "-", "-">>,
      <<" ", "4", "h", " ", " ", "1", "0", "m", "\n">>,
      <<"\n", "-", "-", " ">> }

CellTexts == CompactTexts \cup TokenTexts \cup HoursTexts \cup SentinelTexts

(***************************************************************************)
(* Styles, Game and Result                                                 *)
(***************************************************************************)
Styles_new(average, median, rushed, leisure) ==
    [average |-> average, median |-> median, rushed |-> rushed, leisure |-> leisure]

Game_new(t, id, ms, me, c, a, co, v) ==
    [hltb_id |-> id, title |-> t, main_story |-> ms, main_extra |-> me,
     completionist |-> c, all_styles |-> a, co_op |-> co, vs |-> v]

Pending == [tag |-> "Pending", value |-> None, error |-> ""]

Ok(v) == [tag |-> "Ok", value |-> Some(v), error |-> ""]

Err(e) == [tag |-> "Err", value |-> None, error |-> e]

Panic == [tag |-> "Panic", value |-> None, error |-> ""]

(***************************************************************************)
(* str::parse::<u32>: [+] digits, at least one digit, at most u32::MAX     *)
(***************************************************************************)
U32MaxDigits == <<"4", "2", "9", "4", "9", "6", "7", "2", "9", "5">>

RECURSIVE StripLeadingZeros(_)
StripLeadingZeros(s) ==
    IF Len(s) > 1 /\ Head(s) = "0" THEN StripLeadingZeros(Tail(s)) ELSE s

DigitsLeq(a, b) ==
    \/ a = b
    \/ \E k \in 1..Len(a) :
           /\ DigitVal(a[k]) < DigitVal(b[k])
           /\ SubSeq(a, 1, k - 1) = SubSeq(b, 1, k - 1)

FitsU32(digits) ==
    LET d == StripLeadingZeros(digits)
    IN  \/ Len(d) < Len(U32MaxDigits)
        \/ Len(d) = Len(U32MaxDigits) /\ DigitsLeq(d, U32MaxDigits)

parse_u32(s) ==
    LET body == IF s # <<>> /\ Head(s) = "+" THEN Tail(s) ELSE s
    IN  IF body # <<>> /\ AllDigits(body) /\ FitsU32(body)
        THEN Some(DigitsValue(body, 0))
        ELSE None

last(s) == s[Len(s)]

(***************************************************************************)
(* Pages the browser can hand back                                         *)
(***************************************************************************)
MaxElements == 1

MaxRows == 2

Hrefs ==
    { None,
      Some(<<"/", "g", "a", "m", "e", "/", "5", "9", "0", "0">>),
      Some(<<"/", "g", "a", "m", "e", "/", "1", "2", "9", "2", "3", "2">>),
      Some(<<"/", "g", "a", "m", "e", "/", "x">>),
      Some(<<"/", "g", "a", "m", "e", "/">>),
      Some(<<"/", "g", "a", "m", "e", "/", "4", "2", "9", "4", "9", "6", "7", "2", "9", "6">>) }

SearchPages == UNION { [1..n -> Hrefs] : n \in 0..MaxElements }

Marker == <<"<", "!", "-", "-", " ", "-", "-", ">">>

TitleElements ==
    { None,
      Some(<<"M", "G">>),
      Some(<<" ", "H", "2", "<", "!", "-", "-", " ", "-", "-", ">", "\n">>),
      Some(<<"<", "!", "-", "-", " ", "-", "-", ">", " ", "M", "G">>),
      Some(<<>>) }

RowPool ==
    { <<<<"M", "a", "i", "n", " ", "S", "t", "o", "r", "y">>, <<"5", "7">>, <<"4", "h", " ", "1", "0", "m">>, <<"4", "h">>, <<"2", "h", " ", "4", "6", "m">>, <<"7", "h", " ", "1", "2", "m">>>>,
      <<<<"\n", " ", "M", "a", "i", "n", " ", "+", " ", "E", "x", "t", "r", "a", " ">>, <<"9">>, <<"4", "h", " ", "5", "4", "m">>, <<"4", "h", " ", "5", "1", "m">>, <<"3", "h", " ", "2", "4", "m">>, <<"7", "h", " ", "2", "9", "m">>>>,
      <<<<"M", "a", "i", "n", " ", "+", " ", "E", "x", "t", "r", "a", "s">>, <<"9">>, <<"5", "h">>, <<"-", "-">>, <<>>, <<"5", "9", "m">>, <<"x">>>>,
      <<<<"C", "o", "m", "p", "l", "e", "t", "i", "o", "n", "i", "s", "t">>, <<"3">>, <<"5", "h", " ", "4", "1", "m">>, <<"5", "h">>, <<"3", "h", " ", "5", "8", "m">>, <<"1", "4", "h", " ", "5", "2", "m">>>>,
      <<<<"C", "o", "m", "p", "l", "e", "t", "i", "o", "n", "i", "s", "t", "s">>, <<"3">>, <<"-">>, <<"6", "h">>, <<"-", "-">>, <<"-", "-">>>>,
      <<<<"A", "l", "l", " ", "P", "l", "a", "y", "S", "t", "y", "l", "e", "s">>, <<"6", "9">>, <<"4", "h", " ", "3", "4", "m">>, <<"4", "h">>, <<"2", "h", " ", "5", "2", "m">>, <<"1", "4", "h", " ", "2", "0", "m">>>>,
      <<<<"C", "o", "-", "O", "p">>, <<"1", "2">>, <<"8", "3", " ", "H", "o", "u", "r", "s">>, <<"5", "9", "½", " ", "H", "o", "u", "r", "s">>, <<"3", "8", "½", " ", "H", "o", "u", "r", "s">>, <<"2", "0", "5", " ", "H", "o", "u", "r", "s">>>>,
      <<<<"C", "o", "m", "p", "e", "t", "i", "t", "i", "v", "e">>, <<"4">>, <<"3", "1", " ", "H", "o", "u", "r", "s">>, <<"3", "1", " ", "H", "o", "u", "r", "s">>, <<"1", "9", " ", "H", "o", "u", "r", "s">>, <<"4", "3", " ", "H", "o", "u", "r", "s">>>>,
      <<<<"m", "a", "i", "n", " ", "s", "t", "o", "r", "y">>, <<"1">>, <<"1", "h">>, <<"1", "h">>, <<"1", "h">>, <<"1", "h">>>>,
      <<<<"M", "a", "i", "n", " ", "S", "t", "o", "r", "y">>, <<"5", "7">>, <<"4", "h">>>>,
      <<<<"S", "i", "n", "g", "l", "e", "-", "P", "l", "a", "y", "e", "r">>, <<"P", "o", "l", "l", "e", "d">>>>,
      <<>> }

Tables == UNION { [1..n -> RowPool] : n \in 0..MaxRows }

(***************************************************************************)
(* parse_row (lib.rs 250-260) and the match of lines 208-216               *)
(***************************************************************************)
LabelColumns == 2

StatColumns == 4

StylesOf(cells) == Styles_new(cells[1], cells[2], cells[3], cells[4])

parse_row(row) ==
    StylesOf([k \in 1..StatColumns |->
                 convert_hours_minutes_to_sec_opt(row[LabelColumns + k])])

parse_row_panics(row) == Len(row) < LabelColumns + StatColumns

row_category_without_synonyms(row_type) ==
    CASE row_type = <<"M", "a", "i", "n", " ", "S", "t", "o", "r", "y">> -> "main_story"
      [] row_type = <<"M", "a", "i", "n", " ", "+", " ", "E", "x", "t", "r", "a">> -> "main_extra"
      [] row_type = <<"C", "o", "m", "p", "l", "e", "t", "i", "o", "n", "i", "s", "t">> -> "completionist"
      [] row_type = <<"A", "l", "l", " ", "P", "l", "a", "y", "S", "t", "y", "l", "e", "s">> -> "all_styles"
      [] row_type = <<"C", "o", "-", "O", "p">> -> "co_op"
      [] row_type = <<"C", "o", "m", "p", "e", "t", "i", "t", "i", "v", "e">> -> "vs"
      [] OTHER -> "_"

row_category(row_type) ==
    CASE row_type = <<"M", "a", "i", "n", " ", "S", "t", "o", "r", "y">> -> "main_story"
      [] row_type \in {<<"M", "a", "i", "n", " ", "+", " ", "E", "x", "t", "r", "a">>, <<"M", "a", "i", "n", " ", "+", " ", "E", "x", "t", "r", "a", "s">>} -> "main_extra"
      [] row_type \in {<<"C", "o", "m", "p", "l", "e", "t", "i", "o", "n", "i", "s", "t">>, <<"C", "o", "m", "p", "l", "e", "t", "i", "o", "n", "i", "s", "t", "s">>} -> "completionist"
      [] row_type = <<"A", "l", "l", " ", "P", "l", "a", "y", "S", "t", "y", "l", "e", "s">> -> "all_styles"
      [] row_type = <<"C", "o", "-", "O", "p">> -> "co_op"
      [] row_type = <<"C", "o", "m", "p", "e", "t", "i", "t", "i", "v", "e">> -> "vs"
      [] OTHER -> "_"

(***************************************************************************)
(* search_by_name_with_sandbox (lib.rs 342-353) and the two phases         *)
(***************************************************************************)
LookupIdle ==
    /\ pc = "lookup"
    /\ sandbox = TRUE
    /\ launches = <<>>
    /\ phases = <<>>
    /\ elements = <<>>
    /\ searchResult = Pending
    /\ hltb_id = 0
    /\ titleEl = None
    /\ tableEl = None
    /\ title = <<>>
    /\ rows = <<>>
    /\ row_index = 0
    /\ main_story = None
    /\ main_extra = None
    /\ completionist = None
    /\ all_styles = None
    /\ co_op = None
    /\ vs = None
    /\ detailResult = Pending
    /\ result = Pending
    /\ panic_site = 0

Abort(line) ==
    /\ pc' = "done"
    /\ result' = Panic
    /\ panic_site' = line

Running(next) ==
    /\ pc' = next
    /\ UNCHANGED <<result, panic_site>>

\* search_by_name_with_sandbox calls the title resolver (line 346)
CallSearch ==
    /\ pc = "lookup"
    /\ phases' = Append(phases, [phase |-> "search", id |-> 0])
    /\ Running("search_browser")
    /\ UNCHANGED <<parseVars, searchVars, detailVars, sandbox, launches>>

\* lines 115-128: launch, tab, navigate, wait; any of them can fail with `?`
SearchBrowserFails ==
    /\ pc = "search_browser"
    /\ \E launched \in BOOLEAN :
           launches' = IF launched THEN Append(launches, sandbox) ELSE launches
    /\ searchResult' = Err("browser")
    /\ Running("search_returned")
    /\ UNCHANGED <<parseVars, elements, detailVars, sandbox, phases>>

\* lines 115-130: the rendered page is parsed and the selector applied
SearchContent ==
    /\ pc = "search_browser"
    /\ launches' = Append(launches, sandbox)
    /\ \E page \in SearchPages : elements' = page
    /\ Running("search_select")
    /\ UNCHANGED <<parseVars, searchResult, detailVars, sandbox, phases>>

FirstLink(els) ==
    IF \E k \in 1..Len(els) : IsSome(els[k])
    THEN Some(els[CHOOSE k \in 1..Len(els) :
                     IsSome(els[k]) /\ \A j \in 1..(k - 1) : ~IsSome(els[j])][1])
    ELSE None

IdSegment(link) == last(split(link, "/"))

\* lines 132-139
SearchSelect ==
    /\ pc = "search_select"
    /\ LET link == FirstLink(elements)
       IN  IF IsSome(link)
           THEN LET id == parse_u32(IdSegment(link[1]))
                IN  IF IsSome(id)
                    THEN searchResult' = Ok(id[1]) /\ Running("search_returned")
                    ELSE UNCHANGED searchResult /\ Abort(134)
           ELSE searchResult' = Err("Element not found") /\ Running("search_returned")
    /\ UNCHANGED <<parseVars, elements, detailVars, sandbox, launches, phases>>

AfterSearch_retrying ==
    /\ pc = "search_returned"
    /\ elements' = <<>>
    /\ IF searchResult.tag = "Ok"
       THEN /\ hltb_id' = searchResult.value[1]
            /\ phases' = Append(phases, [phase |-> "detail", id |-> searchResult.value[1]])
            /\ Running("detail_browser")
       ELSE /\ UNCHANGED hltb_id
            /\ phases' = Append(phases, [phase |-> "search", id |-> 0])
            /\ Running("search_browser")
    /\ UNCHANGED <<parseVars, searchResult, titleEl, tableEl, title, rows, row_index,
                   slotVars, detailResult, sandbox, launches>>

\* lines 346-349: unwrap of the resolver's result, then the detail call
AfterSearch ==
    /\ pc = "search_returned"
    /\ elements' = <<>>
    /\ IF searchResult.tag = "Ok"
       THEN /\ hltb_id' = searchResult.value[1]
            /\ phases' = Append(phases, [phase |-> "detail", id |-> searchResult.value[1]])
            /\ Running("detail_browser")
       ELSE /\ UNCHANGED <<hltb_id, phases>>
            /\ Abort(348)
    /\ UNCHANGED <<parseVars, searchResult, titleEl, tableEl, title, rows, row_index,
                   slotVars, detailResult, sandbox, launches>>

\* lines 164-178
DetailBrowserFails ==
    /\ pc = "detail_browser"
    /\ \E launched \in BOOLEAN :
           launches' = IF launched THEN Append(launches, sandbox) ELSE launches
    /\ detailResult' = Err("browser")
    /\ Running("detail_returned")
    /\ UNCHANGED <<parseVars, searchVars, hltb_id, titleEl, tableEl, title, rows, row_index,
                   slotVars, sandbox, phases>>

\* lines 164-179
DetailContent ==
    /\ pc = "detail_browser"
    /\ launches' = Append(launches, sandbox)
    /\ \E t \in TitleElements : titleEl' = t
    /\ \E tb \in {None} \cup {Some(tb) : tb \in Tables} : tableEl' = tb
    /\ Running("detail_title")
    /\ UNCHANGED <<parseVars, searchVars, hltb_id, title, rows, row_index, slotVars,
                   detailResult, sandbox, phases>>

normalize_title(inner_html) == replace(trim(inner_html), Marker, <<>>)

\* lines 180-191
DetailTitle ==
    /\ pc = "detail_title"
    /\ IF IsSome(titleEl)
       THEN title' = normalize_title(titleEl[1]) /\ Running("detail_table")
       ELSE UNCHANGED title /\ Abort(187)
    /\ UNCHANGED <<parseVars, searchVars, hltb_id, titleEl, tableEl, rows, row_index,
                   slotVars, detailResult, sandbox, launches, phases>>

\* lines 192-204
DetailTable ==
    /\ pc = "detail_table"
    /\ IF IsSome(tableEl)
       THEN /\ rows' = tableEl[1]
            /\ row_index' = 1
            /\ main_story' = None
            /\ main_extra' = None
            /\ completionist' = None
            /\ all_styles' = None
            /\ co_op' = None
            /\ vs' = None
            /\ Running("detail_rows")
       ELSE /\ UNCHANGED <<rows, row_index, slotVars>>
            /\ Abort(193)
    /\ UNCHANGED <<parseVars, searchVars, hltb_id, titleEl, tableEl, title,
                   detailResult, sandbox, launches, phases>>

Assign_first_write_wins(category, name, old, styles) ==
    IF category = name /\ old = None THEN Some(styles) ELSE old

Assign(category, name, old, styles) == IF category = name THEN Some(styles) ELSE old

AssignSlots(category, styles) ==
    /\ main_story' = Assign(category, "main_story", main_story, styles)
    /\ main_extra' = Assign(category, "main_extra", main_extra, styles)
    /\ completionist' = Assign(category, "completionist", completionist, styles)
    /\ all_styles' = Assign(category, "all_styles", all_styles, styles)
    /\ co_op' = Assign(category, "co_op", co_op, styles)
    /\ vs' = Assign(category, "vs", vs, styles)

\* lines 205-218: one iteration of the loop over the rows
DetailRow ==
    /\ pc = "detail_rows"
    /\ row_index <= Len(rows)
    /\ LET row      == rows[row_index]
           category == IF row = <<>> THEN "_" ELSE row_category(trim(row[1]))
       IN  IF category # "_" /\ parse_row_panics(row)
           THEN /\ UNCHANGED <<row_index, slotVars>>
                /\ Abort(254 + Len(row))
           ELSE /\ row_index' = row_index + 1
                /\ IF category = "_"
                   THEN UNCHANGED slotVars
                   ELSE AssignSlots(category, parse_row(row))
                /\ Running("detail_rows")
    /\ UNCHANGED <<parseVars, searchVars, hltb_id, titleEl, tableEl, title, rows,
                   detailResult, sandbox, launches, phases>>

\* lines 220-229
DetailReturn ==
    /\ pc = "detail_rows"
    /\ row_index > Len(rows)
    /\ detailResult' = Ok(Game_new(title, hltb_id, main_story, main_extra,
                                   completionist, all_styles, co_op, vs))
    /\ Running("detail_returned")
    /\ UNCHANGED <<parseVars, searchVars, hltb_id, titleEl, tableEl, title, rows, row_index,
                   slotVars, sandbox, launches, phases>>

\* lines 349-352: unwrap of the extractor's result, then Ok(game)
AfterDetail ==
    /\ pc = "detail_returned"
    /\ IF detailResult.tag = "Ok"
       THEN /\ pc' = "done"
            /\ result' = Ok(detailResult.value[1])
            /\ UNCHANGED panic_site
       ELSE Abort(351)
    /\ UNCHANGED <<parseVars, searchVars, detailVars, sandbox, launches, phases>>

Init ==
    /\ text = <<>>
    /\ parsed = None
    /\ parsedOrZero = 0
    /\ called = {}
    /\ pc = "lookup"
    /\ sandbox \in BOOLEAN
    /\ launches = <<>>
    /\ phases = <<>>
    /\ elements = <<>>
    /\ searchResult = Pending
    /\ hltb_id = 0
    /\ titleEl = None
    /\ tableEl = None
    /\ title = <<>>
    /\ rows = <<>>
    /\ row_index = 0
    /\ main_story = None
    /\ main_extra = None
    /\ completionist = None
    /\ all_styles = None
    /\ co_op = None
    /\ vs = None
    /\ detailResult = Pending
    /\ result = Pending
    /\ panic_site = 0

Next ==
    \/ CallSearch
    \/ SearchBrowserFails
    \/ SearchContent
    \/ SearchSelect
    \/ AfterSearch
    \/ DetailBrowserFails
    \/ DetailContent
    \/ DetailTitle
    \/ DetailTable
    \/ DetailRow
    \/ DetailReturn
    \/ AfterDetail

Spec == Init /\ [][Next]_vars

(***************************************************************************)
(* The duration parser applied to one cell text                            *)
(***************************************************************************)
ParseInit ==
    /\ text \in CellTexts
    /\ parsed = None
    /\ parsedOrZero = 0
    /\ called = {}
    /\ LookupIdle

Convert ==
    /\ "opt" \notin called
    /\ parsed' = convert_hours_minutes_to_sec_opt(text)
    /\ called' = called \cup {"opt"}
    /\ UNCHANGED <<text, parsedOrZero, searchVars, detailVars, lookupVars>>

ConvertOrZero ==
    /\ "sec" \notin called
    /\ parsedOrZero' = convert_hours_minutes_to_sec(text)
    /\ called' = called \cup {"sec"}
    /\ UNCHANGED <<text, parsed, searchVars, detailVars, lookupVars>>

ParseNext == Convert \/ ConvertOrZero

ParseSpec == ParseInit /\ [][ParseNext]_vars

(***************************************************************************)
(* Properties of the lookup                                                *)
(***************************************************************************)
ParseRowLines == 255..258

\* C1: every failure of the search phase or of the detail phase reaches the
\* caller as an Err of the lookup; the lookup never panics and never
\* returns Ok after a failed phase.
C1_FailuresReturnErr ==
    pc = "done" =>
        /\ result.tag \in {"Ok", "Err"}
        /\ (searchResult.tag # "Ok" \/ detailResult.tag # "Ok") => result.tag = "Err"

\* C2: the phases run in order, at most once each; the detail phase starts
\* only after the search phase returned an identifier and runs with exactly
\* that identifier; after a failed search the detail phase never starts.
C2_PhasesSequentialOnce ==
    /\ Len(phases) <= 2
    /\ Len(phases) >= 1 => phases[1].phase = "search"
    /\ Len(phases) = 2 =>
           /\ phases[2].phase = "detail"
           /\ searchResult.tag = "Ok"
           /\ phases[2].id = searchResult.value[1]
           /\ hltb_id = searchResult.value[1]
    /\ (pc \notin {"lookup", "search_browser", "search_select", "search_returned"})
           => (Len(phases) = 2 <=> searchResult.tag = "Ok")
    /\ detailResult.tag # "Pending" => Len(phases) = 2
    /\ detailResult.tag = "Ok" => detailResult.value[1].hltb_id = searchResult.value[1]

C2_Witness ==
    /\ pc = "done"
    /\ result.tag = "Ok"
    /\ phases = <<[phase |-> "search", id |-> 0], [phase |-> "detail", id |-> 129232]>>
    /\ result.value[1].hltb_id = 129232

Categories == {"main_story", "main_extra", "completionist", "all_styles", "co_op", "vs"}

CategoryLabels ==
    [main_story    |-> {<<"M", "a", "i", "n", " ", "S", "t", "o", "r", "y">>},
     main_extra    |-> {<<"M", "a", "i", "n", " ", "+", " ", "E", "x", "t", "r", "a">>, <<"M", "a", "i", "n", " ", "+", " ", "E", "x", "t", "r", "a", "s">>},
     completionist |-> {<<"C", "o", "m", "p", "l", "e", "t", "i", "o", "n", "i", "s", "t">>, <<"C", "o", "m", "p", "l", "e", "t", "i", "o", "n", "i", "s", "t", "s">>},
     all_styles    |-> {<<"A", "l", "l", " ", "P", "l", "a", "y", "S", "t", "y", "l", "e", "s">>},
     co_op         |-> {<<"C", "o", "-", "O", "p">>},
     vs            |-> {<<"C", "o", "m", "p", "e", "t", "i", "t", "i", "v", "e">>}]

HasLabelOf(row, c) == row # <<>> /\ trim(row[1]) \in CategoryLabels[c]

Recognized(row) == \E c \in Categories : HasLabelOf(row, c)

SlotsNow ==
    [main_story |-> main_story, main_extra |-> main_extra,
     completionist |-> completionist, all_styles |-> all_styles,
     co_op |-> co_op, vs |-> vs]

\* C4: a row with a recognized label and fewer than six cells ends the
\* extraction with an error value returned to the caller, not with an abort,
\* a skipped row or a parsed StatisticSet.
C4_ShortRowIsMalformedError ==
    (\E k \in 1..Len(rows) :
        /\ Recognized(rows[k])
        /\ Len(rows[k]) < 6
        /\ (k < row_index \/ (k = row_index /\ pc # "detail_rows")))
    => detailResult.tag = "Err"

\* C5: the title resolver returns an error value when no selected element
\* has a link target and when the last path segment of the link target is
\* not an unsigned integer, and returns exactly the identifier otherwise.
C5_ResolverReturnsErrors ==
    (pc = "search_returned" \/ (pc = "done" /\ Len(phases) = 1)) =>
        LET link == FirstLink(elements)
        IN  IF link = None
            THEN searchResult.tag = "Err"
            ELSE LET id == parse_u32(IdSegment(link[1]))
                 IN  IF id = None
                     THEN searchResult.tag = "Err"
                     ELSE searchResult.tag = "Ok" /\ searchResult.value = id

\* C6: after any rows have been processed, each of the six slots is
\* populated if and only if some processed row's trimmed first cell is one of
\* the labels of that category; rows with other labels change nothing, and
\* rows of at least six cells never abort the extraction.  The returned
\* record carries the same slots.
C6_SlotIffLabel ==
    /\ \A c \in Categories :
           IsSome(SlotsNow[c]) <=> \E k \in 1..(row_index - 1) : HasLabelOf(rows[k], c)
    /\ (\A k \in 1..Len(rows) : Len(rows[k]) >= 6) => panic_site \notin ParseRowLines
    /\ detailResult.tag = "Ok" =>
           \A c \in Categories :
               IsSome(detailResult.value[1][c]) <=>
                   \E k \in 1..Len(rows) : HasLabelOf(rows[k], c)

C6_Witness ==
    /\ detailResult.tag = "Ok"
    /\ Len(rows) = 2
    /\ \A k \in 1..Len(rows) : Len(rows[k]) >= 6
    /\ HasLabelOf(rows[1], "co_op")
    /\ HasLabelOf(rows[2], "vs")
    /\ \A c \in {"main_story", "main_extra", "completionist", "all_styles"} :
           detailResult.value[1][c] = None
    /\ IsSome(detailResult.value[1].co_op)
    /\ IsSome(detailResult.value[1].vs)

\* C7: every returned Game has a non-empty title without the "<!-- -->"
\* marker and without leading or trailing whitespace.
C7_TitleNormalized ==
    detailResult.tag = "Ok" =>
        LET t == detailResult.value[1].title
        IN  /\ t # <<>>
            /\ ~contains(t, Marker)
            /\ trim(t) = t

LastRowOf(c) ==
    CHOOSE k \in 1..Len(rows) :
        /\ HasLabelOf(rows[k], c)
        /\ \A j \in (k + 1)..Len(rows) : ~HasLabelOf(rows[j], c)

\* C9: when a category occurs more than once among the rows, under the same
\* label or under synonyms, the returned record holds the StatisticSet of
\* the last such row, the other slots are those of their own last rows, and
\* the repetition itself never aborts the extraction.
C9_LastWriteWins ==
    /\ detailResult.tag = "Ok" =>
           \A c \in Categories :
               detailResult.value[1][c] =
                   IF \E k \in 1..Len(rows) : HasLabelOf(rows[k], c)
                   THEN Some(parse_row(rows[LastRowOf(c)]))
                   ELSE None
    /\ panic_site \in ParseRowLines => Len(rows[row_index]) < 6

C9_Witness ==
    /\ detailResult.tag = "Ok"
    /\ Len(rows) = 2
    /\ HasLabelOf(rows[1], "main_extra")
    /\ HasLabelOf(rows[2], "main_extra")
    /\ trim(rows[1][1]) # trim(rows[2][1])
    /\ parse_row(rows[1]) # parse_row(rows[2])
    /\ detailResult.value[1].main_extra = Some(parse_row(rows[2]))

(***************************************************************************)
(* Properties of the duration parser                                       *)
(***************************************************************************)
Seconds(n) == Scale * n

ExactInF32(n) == n < Pow2(MantissaBits)

\* C3 (as stated): for all h, m >= 0, "<h>h <m>m" parses to Some(h*3600 + m*60),
\* "<h>h" to Some(h*3600) and "<m>m" to Some(m*60).
C3_AllHoursMinutes ==
    "opt" \in called =>
        \A h \in HourValues, m \in MinuteValues :
            /\ text = FmtHM(h, m) => parsed = Some(Seconds(h * 3600 + m * 60))
            /\ text = FmtH(h) => parsed = Some(Seconds(h * 3600))
            /\ text = FmtM(m) => parsed = Some(Seconds(m * 60))

ExpectedCompact(n) ==
    IF n = 0 THEN None ELSE Some(Seconds(n))

\* C3 (amended): for all h, m >= 0 whose total h*3600 + m*60 is below 2^24
\* (exact in f32), "<h>h <m>m" parses to Some(h*3600 + m*60) when the total is
\* positive and to None when it is zero; likewise "<h>h" and "<m>m".
C3_PositiveExactHoursMinutes ==
    "opt" \in called =>
        \A h \in HourValues, m \in MinuteValues :
            /\ (text = FmtHM(h, m) /\ ExactInF32(h * 3600 + m * 60))
                   => parsed = ExpectedCompact(h * 3600 + m * 60)
            /\ (text = FmtH(h) /\ ExactInF32(h * 3600))
                   => parsed = ExpectedCompact(h * 3600)
            /\ (text = FmtM(m) /\ ExactInF32(m * 60))
                   => parsed = ExpectedCompact(m * 60)

C3_Witness ==
    /\ "opt" \in called
    /\ text = FmtHM(4, 10)
    /\ parsed = Some(Seconds(15000))

\* C8: for every cell text the parser returns None or Some(d) with d >= 0.
C8_NonNegative ==
    "opt" \in called => (parsed = None \/ parsed[1] >= 0)

InCompactBranch(txt) ==
    LET t == trim(txt)
    IN  /\ t \notin {<<>>, <<"-">>, <<"-", "-">>}
        /\ ~contains(t, Hour)

SuffixContribution(part) ==
    LET suffix == part[Len(part)]
        prefix == SubSeq(part, 1, Len(part) - 1)
        value  == parse_f32(prefix)
    IN  IF suffix = "h" /\ IsSome(value)
        THEN MulF32(value[1], SecondsPerHour)
        ELSE IF suffix = "m" /\ IsSome(value)
             THEN MulF32(value[1], SecondsPerMinute)
             ELSE 0

RECURSIVE SuffixTotal(_, _)
SuffixTotal(parts, total) ==
    IF parts = <<>>
    THEN total
    ELSE SuffixTotal(Tail(parts), AddF32(total, SuffixContribution(Head(parts))))

\* C10: in the compact branch a token adds to the total only if it ends in
\* 'h' or 'm' and the rest of it parses as a number; every other token
\* ("h5", "m5", "3hh") adds nothing.
C10_OnlySuffixTokensAdd ==
    ("opt" \in called /\ InCompactBranch(text)) =>
        LET total == SuffixTotal(split_whitespace(trim(text)), 0)
        IN  parsed = IF total > 0 THEN Some(total) ELSE None

====
